---- MODULE Spec2Model ----
(***************************************************************************)
(* freecaster-grid: failure detection, obituary exchange and announcer     *)
(* election (src/src/poller.rs) with the HTTP handlers of src/src/main.rs. *)
(*                                                                         *)
(* Every node of the grid runs the same poller loop.  One iteration is     *)
(* split where the poller leaves a locked section for a phase of network   *)
(* calls: Begin (gate, reap, snapshot), Gossip (silence POSTs and the mark *)
(* step), Probe, Track (tracker update, "announce up"), Obituaries, Elect  *)
(* (merge, election, death announcements).  A panic of the poller inside   *)
(* the locked merge leaves the lock poisoned: the poller stops and the     *)
(* handlers that take the lock no longer answer.                           *)
(*                                                                         *)
(* Specifications:                                                         *)
(*   SpecOutage   a grid of four, node "a" not running, reliable network   *)
(*   FairOutage3  a grid of three, node "a" not running, every running     *)
(*                poller keeps taking steps                                *)
(*   SpecNode     one node of a grid of three with open peers: any probe   *)
(*                outcome, any obituary reply, a silence gossiped to it;   *)
(*                the clock stands                                         *)
(*   SpecNode4    one node of a grid of four: one peer never answers, one  *)
(*                always does, one is open                                 *)
(*   SpecSilence  one node of a grid of three with healthy peers, the      *)
(*                clock running and both silence handlers open             *)
(*   SpecGossip   a grid of three, any processes running, one silence      *)
(*   FairFanout   a grid of three, every process running and polling, one  *)
(*                silence                                                  *)
(*   SpecLock     the loop of one node with the lock operations as steps   *)
(*   SpecCycle    the same loop with one request to any locking handler    *)
(*   SpecRace     the same loop with healthy peers, the clock running and  *)
(*                silences raised at any point of the iteration            *)
(***************************************************************************)
EXTENDS Integers, Sequences, FiniteSets, Bags, TLC

\* ---------------------------------------------------------------- bounds
\* stands for usize::MAX: rolls and silence ids are drawn from 0..USIZE_MAX-1
USIZE_MAX == 2
\* the clock runs from 0 to MaxTime
MaxTime == 2
\* number of requests the silence handlers receive in one behaviour
MaxRequests == 2

\* ------------------------------------------------------------- constants
DEAD_AFTER == 3

\* Option::None of a roll or of a timestamp, Option::None of a name
None == -1
NoOne == "-"

\* the names a roster is made of, in roster (and lexicographic) order
AllNodes == <<"a", "b", "c", "d">>
Names == {AllNodes[i] : i \in 1..Len(AllNodes)}

\* String::cmp on the (single letter) names: position in the sorted list
NameRank(x) == CHOOSE i \in 1..Len(AllNodes) : AllNodes[i] = x

\* a roster of three
SmallGrid == {"a", "b", "c"}

Rolls == 0..(USIZE_MAX - 1)
EmptyMap == [x \in {} |-> None]

\* HashMap::insert
MapInsert(m, k, v) == [x \in (DOMAIN m) \cup {k} |-> IF x = k THEN v ELSE m[x]]

VARIABLES
    grid,                 \* the configured roster, this node included
    up,                   \* up[n]: the process of n runs and answers HTTP
    now,                  \* the clock (Utc::now)
    requests,             \* requests received by the silence handlers so far
    pc,                   \* position of each poller in its loop
    node_state,           \* StateInner::node_state of each node
    silences,             \* StateInner::silences of each node
    silenced_nodes_clone, \* poller local: snapshot of the silences
    poll_res,             \* poller local: probe results of this cycle
    met,                  \* history: what each probe of this cycle met
    dead_copies,          \* poller local: clones of the dead entries
    obi_response,         \* poller local: obituaries received this cycle
    broadcast_silences,   \* poller local: the silences a peer accepted
    up_announcements,     \* poller local: recoveries to announce
    announcements,        \* poller local: deaths to announce
    sent,                 \* messages given to the announcer in this cycle
    has_net,              \* poller local: the result of the last internet gate
    lock,                 \* the mutex around StateInner of each node
    request,              \* the last request received by a silence handler
    response,             \* status code of the last answer of a state-changing handler
    heralds,              \* history: heralds[p] = the nodes that announced the
                          \* death of p and have not seen p answer since
    streak                \* history: streak[n][p] = failed probes of p applied
                          \* by n since the last successful one (up to DEAD_AFTER)

vars == <<grid, up, now, requests, pc, node_state, silences,
          silenced_nodes_clone, poll_res, met, dead_copies, obi_response,
          broadcast_silences, up_announcements, announcements,
          sent, has_net, lock, request, response, heralds, streak>>

\* config.nodes after "filter myself out"
Peers(n) == IF n \in grid THEN grid \ {n} ELSE {}

\* ------------------------------------------------------------- NodeState
NodeStateNew ==
    [last_poll |-> None, last_fail |-> None, fail_count |-> 0,
     confirmations |-> EmptyMap, announcement_rolls |-> EmptyMap,
     local_announcement_roll |-> None, announced |-> NoOne]

\* a threshold reached at the first failed probe
is_dead_at_first_failure(fs) == fs.fail_count >= 1

is_dead(fs) == fs.fail_count >= DEAD_AFTER

\* a reset that forgets to clear the roll
reset_keeps_roll(fs) ==
    [fs EXCEPT !.fail_count = 0,
               !.confirmations = EmptyMap,
               !.announcement_rolls = EmptyMap,
               !.last_fail = None,
               !.announced = NoOne]

reset(fs) ==
    [fs EXCEPT !.fail_count = 0,
               !.confirmations = EmptyMap,
               !.announcement_rolls = EmptyMap,
               !.local_announcement_roll = None,
               !.last_fail = None,
               !.announced = NoOne]

\* GridNodeStatus of an entry
Status(fs) ==
    IF is_dead(fs) /\ fs.announced # NoOne THEN "Dead"
    ELSE IF is_dead(fs) THEN "Dying"
    ELSE "Alive"

\* ------------------------------------------------------------ peer client
\* what a status probe can meet
ProbeOutcomes ==
    {"ok", "name_mismatch", "undecodable", "status_error", "no_connection",
     "timeout"}

\* GET / of a node: answered without touching the state
StatusEndpoint(q) == IF up[q] THEN "ok" ELSE "no_connection"

\* the result of the GET: a decoded body, a 2xx answer whose body does not
\* decode, or an error (no answer, or an answer that is not 2xx)
make_whatever_logged_http_call(outcome) ==
    CASE outcome \in {"ok", "name_mismatch"} -> "Ok(Some)"
      [] outcome = "undecodable" -> "Ok(None)"
      [] OTHER -> "Err"

\* a probe that takes a body it cannot decode for a failure
poll_node_strict(outcome) ==
    make_whatever_logged_http_call(outcome) # "Ok(Some)"

\* NodeResult.failing
poll_node(outcome) ==
    CASE make_whatever_logged_http_call(outcome) = "Ok(Some)" -> FALSE
      [] make_whatever_logged_http_call(outcome) = "Ok(None)" -> FALSE
      [] OTHER -> TRUE

\* ------------------------------------------------------------ the tracker
\* a tracker that draws a roll at every failed probe of a dead entry
TrackOne_rerolls(fs, failing, time, roll) ==
    LET polled == [fs EXCEPT !.last_poll = time] IN
    IF failing
    THEN LET failed == [polled EXCEPT !.last_fail = time] IN
         IF ~is_dead(failed)
         THEN LET inc == [failed EXCEPT !.fail_count = @ + 1] IN
              IF is_dead(inc)
              THEN [inc EXCEPT !.local_announcement_roll = roll]
              ELSE inc
         ELSE [failed EXCEPT !.local_announcement_roll = roll]
    ELSE IF is_dead(polled) THEN reset(polled) ELSE polled

\* the body of the loop over poll_res for one entry; roll is the number the
\* random generator returns if it is asked
TrackOne(fs, failing, time, roll) ==
    LET polled == [fs EXCEPT !.last_poll = time] IN
    IF failing
    THEN LET failed == [polled EXCEPT !.last_fail = time] IN
         IF ~is_dead(failed)
         THEN LET inc == [failed EXCEPT !.fail_count = @ + 1] IN
              IF is_dead(inc)
              THEN [inc EXCEPT !.local_announcement_roll = roll]
              ELSE inc
         ELSE failed
    ELSE IF is_dead(polled) THEN reset(polled) ELSE polled

\* a tracker that announces every recovery, whoever announced the death
TrackUp_any_announcer(fs, failing, me) == ~failing /\ is_dead(fs)

\* does the tracker push the node on up_announcements
TrackUp(fs, failing, me) == ~failing /\ is_dead(fs) /\ fs.announced = me

\* ------------------------------------------------------ obituary handler
\* an obituary that lists only the entries already announced
ObituaryOf_announced_only(entries) ==
    [p \in {x \in DOMAIN entries :
                is_dead(entries[x]) /\ entries[x].announced # NoOne} |->
        IF entries[p].local_announcement_roll # None
        THEN entries[p].local_announcement_roll
        ELSE USIZE_MAX]

\* GET /obituary/{key} with the right key: name -> roll of the dead entries
ObituaryOf(entries) ==
    [p \in {x \in DOMAIN entries : is_dead(entries[x])} |->
        IF entries[p].local_announcement_roll # None
        THEN entries[p].local_announcement_roll
        ELSE USIZE_MAX]

\* ---------------------------------------------------- confirmation merge
\* the expect("node") of the merge fails: an obituary names a node that
\* this node does not hold as dead
MergePanics(entries, obi) ==
    \E from \in DOMAIN obi : \E d \in DOMAIN obi[from] :
        ~(d \in DOMAIN entries /\ is_dead(entries[d]))

\* a merge that never replaces a vote it already holds
MergeFrom_first_vote_stays(fs, name, from, orb) ==
    IF ~is_dead(fs) \/ from \in DOMAIN fs.confirmations THEN fs
    ELSE IF name \in DOMAIN orb
         THEN [fs EXCEPT !.confirmations = MapInsert(@, from, orb[name])]
         ELSE [fs EXCEPT !.confirmations = MapInsert(@, from, None)]

\* a merge that stores the latest answer of the peer, a roll or none
MergeFrom_latest(fs, name, from, orb) ==
    IF ~is_dead(fs) THEN fs
    ELSE IF name \in DOMAIN orb
         THEN [fs EXCEPT !.confirmations = MapInsert(@, from, orb[name])]
         ELSE [fs EXCEPT !.confirmations = MapInsert(@, from, None)]

MergeFrom(fs, name, from, orb) ==
    IF ~is_dead(fs) THEN fs
    ELSE IF name \in DOMAIN orb
         THEN [fs EXCEPT !.confirmations = MapInsert(@, from, orb[name])]
         ELSE IF from \in DOMAIN fs.confirmations THEN fs
              ELSE [fs EXCEPT !.confirmations = MapInsert(@, from, None)]

RECURSIVE MergeAll(_, _, _, _)
MergeAll(fs, name, obi, froms) ==
    IF froms = {} THEN fs
    ELSE LET from == CHOOSE f \in froms : TRUE IN
         MergeAll(MergeFrom(fs, name, from, obi[from]), name, obi,
                  froms \ {from})

Merge(entries, obi) ==
    [p \in DOMAIN entries |-> MergeAll(entries[p], p, obi, DOMAIN obi)]

\* ------------------------------------------------------------ the elector
true_confirmations(fs) ==
    Cardinality({f \in DOMAIN fs.confirmations : fs.confirmations[f] # None}) + 1

false_confirmations(fs) ==
    Cardinality({f \in DOMAIN fs.confirmations : fs.confirmations[f] = None})

\* a comparator that breaks ties by descending name
PairLeq_name_descending(x, y) ==
    \/ x[2] < y[2]
    \/ x[2] = y[2] /\ NameRank(x[1]) >= NameRank(y[1])

\* the comparator of sort_by: roll first, then name
PairLeq(x, y) ==
    \/ x[2] < y[2]
    \/ x[2] = y[2] /\ NameRank(x[1]) <= NameRank(y[1])

RECURSIVE SortPairs(_)
SortPairs(S) ==
    IF S = {} THEN << >>
    ELSE LET m == CHOOSE x \in S : \A y \in S : PairLeq(x, y) IN
         <<m>> \o SortPairs(S \ {m})

confirmations_rolls(fs, me) ==
    SortPairs({<<f, fs.confirmations[f]>> :
                  f \in {g \in DOMAIN fs.confirmations : fs.confirmations[g] # None}}
              \cup {<<me, fs.local_announcement_roll>>})

\* a quorum test that lets a tie pass
Quorum_tie_passes(fs) == ~(true_confirmations(fs) < false_confirmations(fs))

\* a quorum test that wants the vote of at least one peer
Quorum_needs_peer(fs) ==
    /\ DOMAIN fs.confirmations # {}
    /\ ~(true_confirmations(fs) <= false_confirmations(fs))

\* has the entry a quorum in this cycle
Quorum(fs) == ~(true_confirmations(fs) <= false_confirmations(fs))

\* an election loop that does not skip the entries already announced
Considered_again(fs) == is_dead(fs) /\ fs.local_announcement_roll # None

\* is the entry considered by the election loop
Considered(fs) ==
    is_dead(fs) /\ fs.announced = NoOne /\ fs.local_announcement_roll # None

winner(fs, me) ==
    LET sorted == confirmations_rolls(fs, me) IN sorted[Len(sorted)]

ElectOne(fs, me) ==
    IF Considered(fs) /\ Quorum(fs)
    THEN [fs EXCEPT !.announced = winner(fs, me)[1]]
    ELSE fs

\* is the node pushed on announcements
ElectAnnounces(fs, me) ==
    Considered(fs) /\ Quorum(fs) /\ winner(fs, me)[1] = me

\* ---------------------------------------------------------- silence store
\* a reap that keeps the silence that expires at this very moment
Retain_inclusive(seq, time) == SelectSeq(seq, LAMBDA sl : sl.silent_until >= time)

\* Vec::retain with the test of "expire silences"
Retain(seq, time) == SelectSeq(seq, LAMBDA sl : sl.silent_until > time)

SeqSet(seq) == {seq[i] : i \in 1..Len(seq)}

\* a receiver that drops every record
ReceiveBroadcast_dropped(store, sl) == store

\* a receiver that overwrites the record it holds under the same id
ReceiveBroadcast_replaces(store, sl) ==
    LET rec == [id |-> sl.id, node_name |-> sl.node_name,
                silent_until |-> sl.silent_until, broadcasted |-> TRUE]
    IN  IF \E i \in 1..Len(store) : store[i].id = sl.id
        THEN [i \in 1..Len(store) |->
                 IF store[i].id = sl.id THEN rec ELSE store[i]]
        ELSE Append(store, rec)

\* POST /silence-broadcast/{key} with the right key, on the store of a node
ReceiveBroadcast(store, sl) ==
    IF \E i \in 1..Len(store) : store[i].id = sl.id
    THEN store
    ELSE Append(store, [id |-> sl.id, node_name |-> sl.node_name,
                        silent_until |-> sl.silent_until,
                        broadcasted |-> TRUE])

\* can a secret-bearing handler of q answer: the process runs and its lock
\* is not poisoned by a panic of the poller
Answers(q) == up[q] /\ pc[q] # "panicked"


Pending(snapshot) == SelectSeq(snapshot, LAMBDA sl : ~sl.broadcasted)

RECURSIVE ReceiveAll(_, _)
ReceiveAll(store, seq) ==
    IF seq = << >> THEN store
    ELSE ReceiveAll(ReceiveBroadcast(store, Head(seq)), Tail(seq))

\* a sender that tries the peers in reverse roster order
FirstAcceptor_last(acc) ==
    CHOOSE q \in acc : \A r \in acc : NameRank(q) >= NameRank(r)

\* the first peer, in roster order, among those that accept a POST
FirstAcceptor(acc) ==
    CHOOSE q \in acc : \A r \in acc : NameRank(q) <= NameRank(r)

\* the "set broadcast state" step
MarkBroadcast(store, ids) ==
    [i \in 1..Len(store) |->
        IF store[i].id \in ids THEN [store[i] EXCEPT !.broadcasted = TRUE]
        ELSE store[i]]

\* ------------------------------------------------------ the poller's loop
\* a loop that runs the cycle whatever the internet gate returned
Begin_gate_ignored(n, has_net_) ==
    /\ n \in grid /\ up[n] /\ pc[n] = "idle"
    /\ has_net' = [has_net EXCEPT ![n] = has_net_]
    /\ silences' = [silences EXCEPT ![n] = Retain(@, now)]
    /\ silenced_nodes_clone' =
          [silenced_nodes_clone EXCEPT ![n] = Retain(silences[n], now)]
    /\ sent' = [sent EXCEPT ![n] = EmptyBag]
    /\ pc' = [pc EXCEPT ![n] = "gossip"]
    /\ UNCHANGED <<met, broadcast_silences, up_announcements, announcements,
                   lock, request, grid, response, up, now, requests,
                   node_state, poll_res, dead_copies, obi_response, heralds,
                   streak>>

\* top of the loop: the internet gate, then reap and snapshot under the lock
Begin(n, has_net_) ==
    /\ n \in grid /\ up[n] /\ pc[n] = "idle"
    /\ has_net' = [has_net EXCEPT ![n] = has_net_]
    /\ IF has_net_
       THEN /\ silences' = [silences EXCEPT ![n] = Retain(@, now)]
            /\ silenced_nodes_clone' =
                  [silenced_nodes_clone EXCEPT ![n] = Retain(silences[n], now)]
            /\ sent' = [sent EXCEPT ![n] = EmptyBag]
            /\ pc' = [pc EXCEPT ![n] = "gossip"]
       ELSE UNCHANGED <<silences, silenced_nodes_clone, sent, pc>>
    /\ UNCHANGED <<met, broadcast_silences, up_announcements, announcements,
                   lock, request, grid, response, up, now, requests, node_state, poll_res,
                   dead_copies, obi_response, heralds, streak>>

\* "broadcast silences" and "set broadcast state"; acc: the peers that
\* answer 2xx to a POST in this cycle
Gossip(n, acc) ==
    /\ n \in grid /\ up[n] /\ pc[n] = "gossip"
    /\ acc \subseteq Peers(n)
    /\ LET pending == Pending(silenced_nodes_clone[n])
           accepted == IF acc = {} THEN << >> ELSE pending
           ids == {sl.id : sl \in SeqSet(accepted)}
       IN  silences' =
             [q \in Names |->
                IF q = n THEN MarkBroadcast(silences[n], ids)
                ELSE IF acc # {} /\ q = FirstAcceptor(acc)
                     THEN ReceiveAll(silences[q], pending)
                     ELSE silences[q]]
    /\ pc' = [pc EXCEPT ![n] = "probe"]
    /\ UNCHANGED <<met, broadcast_silences, up_announcements, announcements,
                   has_net, lock, request, grid, response, up, now, requests, node_state,
                   silenced_nodes_clone, poll_res, dead_copies, obi_response,
                   sent, heralds, streak>>

\* a probe loop that skips only for silences not yet broadcast
Silenced_pending_only(snapshot, p) ==
    \E sl \in SeqSet(snapshot) : sl.node_name = p /\ ~sl.broadcasted

\* is the node skipped by the probe loop
Silenced(snapshot, p) == \E sl \in SeqSet(snapshot) : sl.node_name = p

\* "Polling nodes"; outcomes: what the probe of each peer meets
Probe(n, outcomes) ==
    /\ n \in grid /\ up[n] /\ pc[n] = "probe"
    /\ poll_res' = [poll_res EXCEPT ![n] =
          [p \in {q \in Peers(n) : ~Silenced(silenced_nodes_clone[n], q)} |->
              [failing |-> poll_node(outcomes[p]), time |-> now]]]
    /\ met' = [met EXCEPT ![n] =
          [p \in {q \in Peers(n) : ~Silenced(silenced_nodes_clone[n], q)} |->
              outcomes[p]]]
    /\ pc' = [pc EXCEPT ![n] = "track"]
    /\ UNCHANGED <<broadcast_silences, up_announcements, announcements,
                   has_net, lock, request, grid, response, up, now, requests, node_state, silences,
                   silenced_nodes_clone, dead_copies, obi_response, sent,
                   heralds, streak>>

DeadCopies(entries) ==
    [p \in {x \in DOMAIN entries : is_dead(entries[x])} |-> entries[p]]

\* the tracker update under the lock, then "announce up"; rolls: what the
\* random generator returns for each peer
Track(n, rolls) ==
    /\ n \in grid /\ up[n] /\ pc[n] = "track"
    /\ LET res == poll_res[n]
           old == node_state[n]
           new == [p \in DOMAIN old |->
                     IF p \in DOMAIN res
                     THEN TrackOne(old[p], res[p].failing, res[p].time, rolls[p])
                     ELSE old[p]]
           ups ==
               {p \in DOMAIN res : TrackUp(old[p], res[p].failing, n)}
       IN  /\ node_state' = [node_state EXCEPT ![n] = new]
           /\ dead_copies' = [dead_copies EXCEPT ![n] = DeadCopies(new)]
           /\ sent' = [sent EXCEPT ![n] =
                 @ (+) SetToBag({<<"back", p>> : p \in ups})]
    /\ streak' = [streak EXCEPT ![n] =
          [p \in DOMAIN @ |->
              IF p \notin DOMAIN poll_res[n] THEN @[p]
              ELSE IF ~poll_res[n][p].failing THEN 0
              ELSE IF @[p] < DEAD_AFTER THEN @[p] + 1 ELSE @[p]]]
    /\ heralds' = [p \in Names |->
          IF p \in DOMAIN poll_res[n] /\ ~poll_res[n][p].failing
          THEN heralds[p] \ {n} ELSE heralds[p]]
    /\ poll_res' = [poll_res EXCEPT ![n] = EmptyMap]
    /\ met' = [met EXCEPT ![n] = EmptyMap]
    /\ pc' = [pc EXCEPT ![n] = "obituary"]
    /\ UNCHANGED <<broadcast_silences, up_announcements, announcements,
                   has_net, lock, request, grid, response, up, now, requests, silences,
                   silenced_nodes_clone, obi_response>>

\* an exchange that asks the dead peers too
Asked_dead_too(n) ==
    IF \E p \in DOMAIN dead_copies[n] :
          is_dead(dead_copies[n][p]) /\ dead_copies[n][p].announced = NoOne
    THEN Peers(n)
    ELSE {}

\* an exchange on a roster that still holds this node
Asked_self_too(n) ==
    IF \E p \in DOMAIN dead_copies[n] :
          is_dead(dead_copies[n][p]) /\ dead_copies[n][p].announced = NoOne
    THEN grid \ DOMAIN dead_copies[n]
    ELSE {}

\* the peers whose obituary is fetched in this cycle
Asked(n) ==
    IF \E p \in DOMAIN dead_copies[n] :
          is_dead(dead_copies[n][p]) /\ dead_copies[n][p].announced = NoOne
    THEN Peers(n) \ DOMAIN dead_copies[n]
    ELSE {}

\* "check deaths"; replies: the obituary of every asked peer whose call
\* returned one
Obituaries(n, replies) ==
    /\ n \in grid /\ up[n] /\ pc[n] = "obituary"
    /\ DOMAIN replies \subseteq Asked(n)
    /\ obi_response' = [obi_response EXCEPT ![n] = replies]
    /\ pc' = [pc EXCEPT ![n] = "elect"]
    /\ UNCHANGED <<met, broadcast_silences, up_announcements, announcements,
                   has_net, lock, request, grid, response, up, now, requests, node_state, silences,
                   silenced_nodes_clone, poll_res, dead_copies, sent, heralds, streak>>

\* "process obi responses" and "check death quorum and rolls" under the
\* lock, then the death announcements
Elect(n) ==
    /\ n \in grid /\ up[n] /\ pc[n] = "elect"
    /\ IF MergePanics(node_state[n], obi_response[n])
       THEN /\ pc' = [pc EXCEPT ![n] = "panicked"]
            /\ lock' = [lock EXCEPT ![n] = "poisoned"]
            /\ UNCHANGED <<node_state, sent, heralds>>
       ELSE LET merged == Merge(node_state[n], obi_response[n])
                deaths ==
                    {p \in DOMAIN merged : ElectAnnounces(merged[p], n)}
            IN  /\ node_state' = [node_state EXCEPT ![n] =
                      [p \in DOMAIN merged |-> ElectOne(merged[p], n)]]
                /\ sent' = [sent EXCEPT ![n] =
                      @ (+) SetToBag({<<"dead", p>> : p \in deaths})]
                /\ heralds' = [p \in Names |->
                      IF p \in deaths THEN heralds[p] \cup {n}
                      ELSE heralds[p]]
                /\ pc' = [pc EXCEPT ![n] = "idle"]
                /\ UNCHANGED lock
    /\ obi_response' = [obi_response EXCEPT ![n] = EmptyMap]
    /\ dead_copies' = [dead_copies EXCEPT ![n] = EmptyMap]
    /\ UNCHANGED <<met, broadcast_silences, up_announcements, announcements,
                   has_net, request, grid, response, up, now, requests, silences,
                   silenced_nodes_clone, poll_res, streak>>

\* ------------------------------------------------------- the environment
Tick ==
    /\ now < MaxTime
    /\ now' = now + 1
    /\ UNCHANGED <<met, broadcast_silences, up_announcements, announcements,
                   has_net, lock, request, grid, response, up, requests, pc, node_state, silences,
                   silenced_nodes_clone, poll_res, dead_copies, obi_response,
                   sent, heralds, streak>>

\* ------------------------------------------------------ HTTP handlers
\* the {time} of a silence request: Unix seconds, a duration, or neither
TimeArgs ==
    {[kind |-> "unix", val |-> t] : t \in 0..(MaxTime + 1)}
    \cup {[kind |-> "duration", val |-> 1], [kind |-> "garbage", val |-> 0]}

\* a parser that reads anything that is not an integer as a duration
try_parse_anything(time) ==
    IF time.kind = "unix" THEN time.val ELSE now + time.val

try_parse_until_time(time) ==
    CASE time.kind = "unix" -> time.val
      [] time.kind = "duration" -> now + time.val
      [] OTHER -> None

\* GET /silence/{key}/{time}[/{target}]; target NoOne: no target given
handle_silence(n, key_ok, time, target, id) ==
    /\ n \in grid /\ Answers(n)
    /\ lock[n] = "free"
    /\ requests < MaxRequests
    /\ requests' = requests + 1
    /\ request' = [node |-> n, endpoint |-> "silence", key_ok |-> key_ok,
                   time |-> time, target |-> target]
    /\ LET silent_until == try_parse_until_time(time)
           tgt == IF target = NoOne THEN n ELSE target
       IN  IF ~key_ok
           THEN response' = 406 /\ UNCHANGED silences
           ELSE IF silent_until = None
           THEN response' = 400 /\ UNCHANGED silences
           ELSE IF tgt \notin DOMAIN node_state[n] /\ tgt # n
           THEN response' = 404 /\ UNCHANGED silences
           ELSE /\ response' = 200
                /\ silences' = [silences EXCEPT ![n] =
                      Append(@, [id |-> id, node_name |-> tgt,
                                 silent_until |-> silent_until,
                                 broadcasted |-> FALSE])]
    /\ UNCHANGED <<met, broadcast_silences, up_announcements, announcements,
                   has_net, lock, grid, up, now, pc, node_state, silenced_nodes_clone,
                   poll_res, dead_copies, obi_response, sent, heralds, streak>>

\* POST /silence-broadcast/{key} from outside the modelled pollers;
\* decodes: the body is a SilenceBroadcastRequest
silence_broadcast(n, key_ok, decodes, body) ==
    /\ n \in grid /\ Answers(n)
    /\ lock[n] = "free"
    /\ requests < MaxRequests
    /\ requests' = requests + 1
    /\ request' = [node |-> n, endpoint |-> "silence-broadcast",
                   key_ok |-> key_ok, decodes |-> decodes, body |-> body]
    /\ IF ~key_ok
       THEN response' = 406 /\ UNCHANGED silences
       ELSE IF ~decodes
       THEN response' = 400 /\ UNCHANGED silences
       ELSE /\ response' = 204
            /\ silences' = [silences EXCEPT ![n] = ReceiveBroadcast(@, body)]
    /\ UNCHANGED <<met, broadcast_silences, up_announcements, announcements,
                   has_net, lock, grid, up, now, pc, node_state, silenced_nodes_clone,
                   poll_res, dead_copies, obi_response, sent, heralds, streak>>

\* a handler that forgets the deaths it has reported
obituary_forgets(n, key_ok) ==
    /\ n \in grid /\ up[n]
    /\ requests < MaxRequests
    /\ requests' = requests + 1
    /\ request' = [node |-> n, endpoint |-> "obituary", key_ok |-> key_ok]
    /\ IF ~key_ok
       THEN response' = 406 /\ UNCHANGED node_state
       ELSE /\ lock[n] = "free"
            /\ response' = 200
            /\ node_state' = [node_state EXCEPT ![n] =
                  [p \in DOMAIN @ |-> IF is_dead(@[p]) THEN reset(@[p]) ELSE @[p]]]
    /\ UNCHANGED <<met, broadcast_silences, up_announcements, announcements,
                   has_net, lock, grid, up, now, pc, silences,
                   silenced_nodes_clone, poll_res, dead_copies, obi_response,
                   sent, heralds, streak>>

\* GET /obituary/{key}: the key is compared first; with the right key the
\* dead entries are read under the lock and ObituaryOf is the answer
obituary(n, key_ok) ==
    /\ n \in grid /\ up[n]
    /\ requests < MaxRequests
    /\ requests' = requests + 1
    /\ request' = [node |-> n, endpoint |-> "obituary", key_ok |-> key_ok]
    /\ IF ~key_ok
       THEN response' = 406
       ELSE /\ lock[n] = "free"
            /\ response' = 200
    /\ UNCHANGED <<met, broadcast_silences, up_announcements, announcements,
                   has_net, lock, grid, up, now, pc, node_state, silences,
                   silenced_nodes_clone, poll_res, dead_copies, obi_response,
                   sent, heralds, streak>>

\* GET /grid/{key}: the key is compared first; with the right key every
\* entry is read under the lock
grid_status(n, key_ok) ==
    /\ n \in grid /\ up[n]
    /\ requests < MaxRequests
    /\ requests' = requests + 1
    /\ request' = [node |-> n, endpoint |-> "grid", key_ok |-> key_ok]
    /\ IF ~key_ok
       THEN response' = 406
       ELSE /\ lock[n] = "free"
            /\ response' = 200
    /\ UNCHANGED <<met, broadcast_silences, up_announcements, announcements,
                   has_net, lock, grid, up, now, pc, node_state, silences,
                   silenced_nodes_clone, poll_res, dead_copies, obi_response,
                   sent, heralds, streak>>

\* ------------------------------------------------------------- the grid
\* the state of the nodes of roster g once every poller has run its "init
\* state" block
InitOf(g) ==
    /\ grid = g
    /\ now = 0
    /\ requests = 0
    /\ pc = [n \in Names |-> "idle"]
    /\ node_state = [n \in Names |-> [p \in (IF n \in g THEN g \ {n} ELSE {}) |-> NodeStateNew]]
    /\ silences = [n \in Names |-> << >>]
    /\ silenced_nodes_clone = [n \in Names |-> << >>]
    /\ poll_res = [n \in Names |-> EmptyMap]
    /\ met = [n \in Names |-> EmptyMap]
    /\ dead_copies = [n \in Names |-> EmptyMap]
    /\ obi_response = [n \in Names |-> EmptyMap]
    /\ broadcast_silences = [n \in Names |-> << >>]
    /\ up_announcements = [n \in Names |-> {}]
    /\ announcements = [n \in Names |-> {}]
    /\ sent = [n \in Names |-> EmptyBag]
    /\ response = 0
    /\ request = [node |-> NoOne]
    /\ has_net = [n \in Names |-> TRUE]
    /\ lock = [n \in Names |-> "free"]
    /\ heralds = [n \in Names |-> {}]
    /\ streak = [n \in Names |-> [p \in (IF n \in g THEN g \ {n} ELSE {}) |-> 0]]

\* the poller steps of a node whose peers are the other nodes of the grid
GridBegin == \E n \in Names : \E gate \in BOOLEAN : Begin(n, gate)

GridGossip == \E n \in Names : Gossip(n, {q \in Peers(n) : Answers(q)})

GridProbe == \E n \in Names : Probe(n, [p \in Peers(n) |-> StatusEndpoint(p)])

GridTrack == \E n \in Names : \E rolls \in [Peers(n) -> Rolls] : Track(n, rolls)

GridObituaries ==
    \E n \in Names :
        Obituaries(n, [q \in {x \in Asked(n) : Answers(x)} |->
                          ObituaryOf(node_state[q])])

GridElect == \E n \in Names : Elect(n)

\* a grid of four in which the process of "a" does not run
InitOutage ==
    /\ InitOf(Names)
    /\ up = [n \in Names |-> n # "a"]

NextOutage ==
    \/ GridBegin
    \/ GridGossip
    \/ GridProbe
    \/ GridTrack
    \/ GridObituaries
    \/ GridElect

SpecOutage == InitOutage /\ [][NextOutage]_vars

\* a grid of three in which the process of "a" does not run
InitOutage3 ==
    /\ InitOf(SmallGrid)
    /\ up = [n \in Names |-> n \in SmallGrid \ {"a"}]

SpecOutage3 == InitOutage3 /\ [][NextOutage]_vars

\* one iteration of the loop of n after the other, the internet gate passing
PollerStep(n) ==
    \/ Begin(n, TRUE)
    \/ Gossip(n, {q \in Peers(n) : Answers(q)})
    \/ Probe(n, [p \in Peers(n) |-> StatusEndpoint(p)])
    \/ \E rolls \in [Peers(n) -> Rolls] : Track(n, rolls)
    \/ Obituaries(n, [q \in {x \in Asked(n) : Answers(x)} |->
                         ObituaryOf(node_state[q])])
    \/ Elect(n)

\* the poller of every running node keeps running
FairOutage3 == SpecOutage3 /\ \A n \in Names : WF_vars(PollerStep(n))

\* ------------------------------------------------------- one node, open
\* One node of a grid of three with its peers left open: a probe meets any
\* outcome, a silence POST is accepted by any set of peers, an obituary call
\* returns nothing or any list over the names of the grid.
Me == "b"

\* the obituaries a peer can return: any names of the grid, any rolls,
\* the fallback roll included
ObituaryLists ==
    UNION {[S -> Rolls \cup {USIZE_MAX}] : S \in SUBSET SmallGrid}

\* what the calls to the asked peers can return: an obituary from any of them
ReplySets(asked) == UNION {[S -> ObituaryLists] : S \in SUBSET asked}

NodeBegin == \E gate \in BOOLEAN : Begin(Me, gate)

NodeGossip == \E acc \in SUBSET Peers(Me) : Gossip(Me, acc)

NodeProbe == \E outcomes \in [Peers(Me) -> ProbeOutcomes] : Probe(Me, outcomes)

NodeTrack == \E rolls \in [Peers(Me) -> Rolls] : Track(Me, rolls)

NodeObituaries == \E replies \in ReplySets(Asked(Me)) : Obituaries(Me, replies)

NodeElect == Elect(Me)

\* the one silence on a peer gossiped to this node; the clock of this
\* specification stands, so that the silence does not expire
NodeSilenceBroadcast ==
    \E key_ok \in BOOLEAN, decodes \in BOOLEAN, t \in Peers(Me) :
        /\ requests = 0
        /\ silence_broadcast(Me, key_ok, decodes,
                          [id |-> 0, node_name |-> t, silent_until |-> now + 1])

InitNode ==
    /\ InitOf(SmallGrid)
    /\ up = [n \in Names |-> n \in SmallGrid]

NextNode ==
    \/ NodeBegin
    \/ NodeGossip
    \/ NodeProbe
    \/ NodeTrack
    \/ NodeObituaries
    \/ NodeElect
    \/ NodeSilenceBroadcast

SpecNode == InitNode /\ [][NextNode]_vars

\* --------------------------------------------- one node of four, open
\* The same node in a grid of four: peer "a" never answers a probe, peer "c"
\* answers every probe, peer "d" is open.  An obituary call returns nothing
\* or a list of drawn rolls over the names of the replier's roster.
DrawnLists == UNION {[S -> Rolls] : S \in SUBSET grid}

ReplySets4(asked) ==
    UNION {{f \in [S -> DrawnLists] : \A q \in S : q \notin DOMAIN f[q]} :
              S \in SUBSET asked}

Node4Probe ==
    \E outcomes \in [Peers(Me) -> ProbeOutcomes] :
        /\ outcomes["a"] = "no_connection"
        /\ outcomes["c"] = "ok"
        /\ Probe(Me, outcomes)

Node4Obituaries ==
    \E replies \in ReplySets4(Asked(Me)) : Obituaries(Me, replies)

InitNode4 ==
    /\ InitOf(Names)
    /\ up = [n \in Names |-> TRUE]

NextNode4 ==
    \/ NodeBegin
    \/ NodeGossip
    \/ Node4Probe
    \/ NodeTrack
    \/ Node4Obituaries
    \/ NodeElect

SpecNode4 == InitNode4 /\ [][NextNode4]_vars

\* ------------------------------------------------- one node, silences
\* The same node of a grid of three with the clock running and both silence
\* handlers open; its peers answer every probe.
SilenceProbe == Probe(Me, [p \in Peers(Me) |-> "ok"])

\* a silence request: any key, any time argument, no target, a peer or a
\* name that is not on the roster
SilenceRequest ==
    \E key_ok \in BOOLEAN, time \in TimeArgs,
       target \in {NoOne, "a", "d"}, id \in Rolls :
        handle_silence(Me, key_ok, time, target, id)

SilenceBroadcastRequest ==
    \E key_ok \in BOOLEAN, decodes \in BOOLEAN, id \in Rolls :
        silence_broadcast(Me, key_ok, decodes,
                          [id |-> id, node_name |-> "a", silent_until |-> now + 1])

NextSilence ==
    \/ NodeBegin
    \/ NodeGossip
    \/ SilenceProbe
    \/ NodeTrack
    \/ NodeObituaries
    \/ NodeElect
    \/ Tick
    \/ SilenceRequest
    \/ SilenceBroadcastRequest

SpecSilence == InitNode /\ [][NextSilence]_vars

\* ------------------------------------------------- the grid, one silence
\* A grid of three in which any processes run, and one silence, for one
\* second, is raised on one of them; the clock stands.
InitGossip ==
    /\ InitOf(SmallGrid)
    /\ up \in [Names -> BOOLEAN]
    /\ \A n \in Names : up[n] => n \in SmallGrid
    /\ \E n \in Names : up[n]

GossipRequest ==
    \E n \in Names, target \in SmallGrid, id \in Rolls :
        /\ requests = 0
        /\ handle_silence(n, TRUE, [kind |-> "duration", val |-> 1], target, id)

NextGossip ==
    \/ GridBegin
    \/ GridGossip
    \/ GridProbe
    \/ GridTrack
    \/ GridObituaries
    \/ GridElect
    \/ GossipRequest

SpecGossip == InitGossip /\ [][NextGossip]_vars

\* the grid of three with every process running and every gate passing
InitFanout ==
    /\ InitOf(SmallGrid)
    /\ up = [n \in Names |-> n \in SmallGrid]

NextFanout ==
    \/ \E n \in Names : PollerStep(n)
    \/ GossipRequest

SpecFanout == InitFanout /\ [][NextFanout]_vars

FairFanout == SpecFanout /\ \A n \in Names : WF_vars(PollerStep(n))

\* ------------------------------------------------ the loop, lock by lock
\* The iteration of the loop of one node with the lock operations as steps:
\* a locked block is entered by LockState and left by the step that runs its
\* body; the network calls between two blocks are steps of their own.

\* the positions at which the poller calls state.lock()
LockPoints == {"reap", "mark", "track", "elect"}

\* the positions at which the poller is about to make network calls
CallPoints == {"idle", "post", "probe", "announce_up", "obituary", "announce"}

\* a guard that outlives its block
Unlock_kept(n) == lock

\* the MutexGuard goes out of scope at the end of its block
Unlock(n) == [lock EXCEPT ![n] = "free"]

\* state.lock(): waits until the mutex is free
LockState(n) ==
    /\ n \in grid /\ up[n] /\ pc[n] \in LockPoints
    /\ lock[n] = "free"
    /\ lock' = [lock EXCEPT ![n] = "poller"]
    /\ UNCHANGED <<met, grid, up, now, requests, pc, node_state, silences,
                   silenced_nodes_clone, poll_res, dead_copies, obi_response,
                   broadcast_silences, up_announcements, announcements,
                   sent, has_net, request, response, heralds, streak>>

\* the internet gate
CheckInternet(n, gate) ==
    /\ n \in grid /\ up[n] /\ pc[n] = "idle"
    /\ has_net' = [has_net EXCEPT ![n] = gate]
    /\ pc' = [pc EXCEPT ![n] = IF gate THEN "reap" ELSE "idle"]
    /\ sent' = [sent EXCEPT ![n] = IF gate THEN EmptyBag ELSE @]
    /\ UNCHANGED <<met, grid, up, now, requests, node_state, silences,
                   silenced_nodes_clone, poll_res, dead_copies, obi_response,
                   broadcast_silences, up_announcements, announcements,
                   lock, request, response, heralds, streak>>

\* "process silences": reap and snapshot
ProcessSilences(n) ==
    /\ n \in grid /\ up[n] /\ pc[n] = "reap" /\ lock[n] = "poller"
    /\ silences' = [silences EXCEPT ![n] = Retain(@, now)]
    /\ silenced_nodes_clone' =
          [silenced_nodes_clone EXCEPT ![n] = Retain(silences[n], now)]
    /\ lock' = Unlock(n)
    /\ pc' = [pc EXCEPT ![n] = "post"]
    /\ UNCHANGED <<met, grid, up, now, requests, node_state, poll_res,
                   dead_copies, obi_response, broadcast_silences,
                   up_announcements, announcements, sent, has_net, request,
                   response, heralds, streak>>

\* "broadcast silences": the POSTs; acc: the peers that answer 2xx
PostSilences(n, acc) ==
    /\ n \in grid /\ up[n] /\ pc[n] = "post"
    /\ acc \subseteq Peers(n)
    /\ LET pending == Pending(silenced_nodes_clone[n]) IN
       /\ broadcast_silences' = [broadcast_silences EXCEPT ![n] =
             IF acc = {} THEN << >> ELSE pending]
       /\ silences' =
             [q \in Names |->
                IF acc # {} /\ q = FirstAcceptor(acc)
                THEN ReceiveAll(silences[q], pending)
                ELSE silences[q]]
    /\ pc' = [pc EXCEPT ![n] = "mark"]
    /\ UNCHANGED <<met, grid, up, now, requests, node_state, silenced_nodes_clone,
                   poll_res, dead_copies, obi_response, up_announcements,
                   announcements, sent, has_net, lock, request, response,
                   heralds, streak>>

\* "set broadcast state"
SetBroadcastState(n) ==
    /\ n \in grid /\ up[n] /\ pc[n] = "mark" /\ lock[n] = "poller"
    /\ silences' = [silences EXCEPT ![n] =
          MarkBroadcast(@, {sl.id : sl \in SeqSet(broadcast_silences[n])})]
    /\ broadcast_silences' = [broadcast_silences EXCEPT ![n] = << >>]
    /\ lock' = Unlock(n)
    /\ pc' = [pc EXCEPT ![n] = "probe"]
    /\ UNCHANGED <<met, grid, up, now, requests, node_state, silenced_nodes_clone,
                   poll_res, dead_copies, obi_response, up_announcements,
                   announcements, sent, has_net, request, response, heralds,
                   streak>>

\* the tracker update; rolls: what the random generator returns
UpdateTracker(n, rolls) ==
    /\ n \in grid /\ up[n] /\ pc[n] = "track" /\ lock[n] = "poller"
    /\ LET res == poll_res[n]
           old == node_state[n]
           new == [p \in DOMAIN old |->
                     IF p \in DOMAIN res
                     THEN TrackOne(old[p], res[p].failing, res[p].time, rolls[p])
                     ELSE old[p]]
       IN  /\ node_state' = [node_state EXCEPT ![n] = new]
           /\ dead_copies' = [dead_copies EXCEPT ![n] = DeadCopies(new)]
           /\ up_announcements' = [up_announcements EXCEPT ![n] =
                 {p \in DOMAIN res : TrackUp(old[p], res[p].failing, n)}]
    /\ streak' = [streak EXCEPT ![n] =
          [p \in DOMAIN @ |->
              IF p \notin DOMAIN poll_res[n] THEN @[p]
              ELSE IF ~poll_res[n][p].failing THEN 0
              ELSE IF @[p] < DEAD_AFTER THEN @[p] + 1 ELSE @[p]]]
    /\ heralds' = [p \in Names |->
          IF p \in DOMAIN poll_res[n] /\ ~poll_res[n][p].failing
          THEN heralds[p] \ {n} ELSE heralds[p]]
    /\ poll_res' = [poll_res EXCEPT ![n] = EmptyMap]
    /\ met' = [met EXCEPT ![n] = EmptyMap]
    /\ lock' = Unlock(n)
    /\ pc' = [pc EXCEPT ![n] = "announce_up"]
    /\ UNCHANGED <<grid, up, now, requests, silences, silenced_nodes_clone,
                   obi_response, broadcast_silences, announcements, sent,
                   has_net, request, response>>

\* "announce up"
AnnounceUp(n) ==
    /\ n \in grid /\ up[n] /\ pc[n] = "announce_up"
    /\ sent' = [sent EXCEPT ![n] =
          @ (+) SetToBag({<<"back", p>> : p \in up_announcements[n]})]
    /\ up_announcements' = [up_announcements EXCEPT ![n] = {}]
    /\ pc' = [pc EXCEPT ![n] = "obituary"]
    /\ UNCHANGED <<met, grid, up, now, requests, node_state, silences,
                   silenced_nodes_clone, poll_res, dead_copies, obi_response,
                   broadcast_silences, announcements, has_net, lock, request,
                   response, heralds, streak>>

\* "process obi responses" and "check death quorum and rolls"
ProcessObiResponses(n) ==
    /\ n \in grid /\ up[n] /\ pc[n] = "elect" /\ lock[n] = "poller"
    /\ IF MergePanics(node_state[n], obi_response[n])
       THEN /\ pc' = [pc EXCEPT ![n] = "panicked"]
            /\ lock' = [lock EXCEPT ![n] = "poisoned"]
            /\ UNCHANGED <<node_state, announcements, heralds>>
       ELSE LET merged == Merge(node_state[n], obi_response[n])
                deaths ==
                    {p \in DOMAIN merged : ElectAnnounces(merged[p], n)}
            IN  /\ node_state' = [node_state EXCEPT ![n] =
                      [p \in DOMAIN merged |-> ElectOne(merged[p], n)]]
                /\ announcements' = [announcements EXCEPT ![n] = deaths]
                /\ heralds' = [p \in Names |->
                      IF p \in deaths THEN heralds[p] \cup {n}
                      ELSE heralds[p]]
                /\ pc' = [pc EXCEPT ![n] = "announce"]
                /\ lock' = Unlock(n)
    /\ obi_response' = [obi_response EXCEPT ![n] = EmptyMap]
    /\ dead_copies' = [dead_copies EXCEPT ![n] = EmptyMap]
    /\ UNCHANGED <<met, grid, up, now, requests, silences, silenced_nodes_clone,
                   poll_res, broadcast_silences, up_announcements, sent,
                   has_net, request, response, streak>>

\* the death announcements
AnnounceDead(n) ==
    /\ n \in grid /\ up[n] /\ pc[n] = "announce"
    /\ sent' = [sent EXCEPT ![n] =
          @ (+) SetToBag({<<"dead", p>> : p \in announcements[n]})]
    /\ announcements' = [announcements EXCEPT ![n] = {}]
    /\ pc' = [pc EXCEPT ![n] = "idle"]
    /\ UNCHANGED <<met, grid, up, now, requests, node_state, silences,
                   silenced_nodes_clone, poll_res, dead_copies, obi_response,
                   broadcast_silences, up_announcements, has_net, lock,
                   request, response, heralds, streak>>

LockCheckInternet == \E gate \in BOOLEAN : CheckInternet(Me, gate)

LockPostSilences == \E acc \in SUBSET Peers(Me) : PostSilences(Me, acc)

LockUpdateTracker == \E rolls \in [Peers(Me) -> Rolls] : UpdateTracker(Me, rolls)

NextLock ==
    \/ LockCheckInternet
    \/ LockState(Me)
    \/ ProcessSilences(Me)
    \/ LockPostSilences
    \/ SetBroadcastState(Me)
    \/ NodeProbe
    \/ LockUpdateTracker
    \/ AnnounceUp(Me)
    \/ NodeObituaries
    \/ ProcessObiResponses(Me)
    \/ AnnounceDead(Me)
    \/ NodeSilenceBroadcast

SpecLock == InitNode /\ [][NextLock]_vars

\* ------------------------------------- the loop and the handlers, locked
\* The same loop, lock by lock, with one request to any of the handlers
\* that take the lock, arriving at any point of the iteration; the clock
\* stands.
\* a probe is answered or meets no connection
CycleProbe ==
    \E outcomes \in [Peers(Me) -> {"ok", "no_connection"}] : Probe(Me, outcomes)

CycleSilence ==
    \E target \in {NoOne} \cup Peers(Me), id \in Rolls :
        /\ requests = 0
        /\ handle_silence(Me, TRUE, [kind |-> "duration", val |-> 1], target, id)

CycleObituary == \E key_ok \in BOOLEAN : requests = 0 /\ obituary(Me, key_ok)

CycleGrid == \E key_ok \in BOOLEAN : requests = 0 /\ grid_status(Me, key_ok)

NextCycle ==
    \/ LockCheckInternet
    \/ LockState(Me)
    \/ ProcessSilences(Me)
    \/ LockPostSilences
    \/ SetBroadcastState(Me)
    \/ CycleProbe
    \/ LockUpdateTracker
    \/ AnnounceUp(Me)
    \/ NodeObituaries
    \/ ProcessObiResponses(Me)
    \/ AnnounceDead(Me)
    \/ NodeSilenceBroadcast
    \/ CycleSilence
    \/ CycleObituary
    \/ CycleGrid

SpecCycle == InitNode /\ [][NextCycle]_vars

\* ------------------------------------- the loop, locked, and new silences
\* The same loop, lock by lock, with healthy peers and the clock running;
\* silences of one second are raised on this node at any point of the
\* iteration, with any id the generator returns.
RaceProbe == Probe(Me, [p \in Peers(Me) |-> "ok"])

RaceRequest ==
    \E target \in {NoOne, "a"}, id \in Rolls :
        handle_silence(Me, TRUE, [kind |-> "duration", val |-> 1], target, id)

NextRace ==
    \/ LockCheckInternet
    \/ LockState(Me)
    \/ ProcessSilences(Me)
    \/ LockPostSilences
    \/ SetBroadcastState(Me)
    \/ RaceProbe
    \/ LockUpdateTracker
    \/ AnnounceUp(Me)
    \/ NodeObituaries
    \/ ProcessObiResponses(Me)
    \/ AnnounceDead(Me)
    \/ RaceRequest
    \/ Tick

SpecRace == InitNode /\ [][NextRace]_vars

\* ================================================================ claims
\* copies of a message given to the announcer by the step
Added(n, msg) == CopiesIn(msg, sent'[n]) - CopiesIn(msg, sent[n])

\* the tracker step of n applies a successful probe of p
AppliesSuccess(n, p) ==
    /\ pc[n] = "track" /\ pc'[n] = "obituary"
    /\ p \in DOMAIN poll_res[n] /\ ~poll_res[n][p].failing

\* T and F of an election, counted on a confirmations map
VotesFor(c) == 1 + Cardinality({f \in DOMAIN c : c[f] # None})

VotesAgainst(c) == Cardinality({f \in DOMAIN c : c[f] = None})

\* C1: at most one node announces the death of a peer during one outage of
\* that peer (as stated; the code lets a second node announce)
OneAnnouncerPerDeath == \A p \in Names : Cardinality(heralds[p]) <= 1

\* C2: if a peer stays down and every other node stays up and keeps polling,
\* then eventually some node has announced the death and every other node
\* holds the peer as announced, for good
EventualAnnouncement ==
    \A p \in Names :
        [](p \in grid /\ ~up[p] /\ \A q \in grid \ {p} : up[q])
        => <>[](/\ heralds[p] # {}
                /\ \A n \in grid \ {p} : node_state[n][p].announced # NoOne)

\* C2 witness: the peer is down, announced by some node, and every other
\* node holds it as announced
AnnouncedEverywhere ==
    \E p \in grid :
        /\ ~up[p] /\ heralds[p] # {}
        /\ \A n \in grid \ {p} :
              up[n] /\ Status(node_state[n][p]) = "Dead"

\* C3: an entry is at the death threshold only after DEAD_AFTER failed probes
\* in a row (as stated; the code does not restart the count on a success)
DeadOnlyAfterThreeInARow ==
    \A n \in Names : \A p \in DOMAIN node_state[n] :
        is_dead(node_state[n][p]) => streak[n][p] >= DEAD_AFTER

\* C4: right after the tracker applied a successful probe of p the entry of p
\* is fully reset, whatever it was (as stated; the code resets only a dead
\* entry)
FullResetOnSuccess ==
    [][\A n \in Names : \A p \in DOMAIN node_state[n] :
          AppliesSuccess(n, p) =>
              /\ node_state'[n][p].fail_count = 0
              /\ node_state'[n][p].confirmations = EmptyMap
              /\ node_state'[n][p].local_announcement_roll = None
              /\ node_state'[n][p].announced = NoOne
              /\ node_state'[n][p].last_fail = None]_vars

\* C5: an entry has fail_count >= 3 exactly when its roll is set, and the
\* obituary of a node gives every dead entry its drawn roll, never the
\* fallback
RollIffDead ==
    \A n \in Names :
        /\ \A p \in DOMAIN node_state[n] :
              (node_state[n][p].fail_count >= 3)
              <=> (node_state[n][p].local_announcement_roll # None)
        /\ \A p \in DOMAIN ObituaryOf(node_state[n]) :
              /\ ObituaryOf(node_state[n])[p] # USIZE_MAX
              /\ ObituaryOf(node_state[n])[p]
                    = node_state[n][p].local_announcement_roll

\* C5 witness: one entry is dead with its roll while another one, which this
\* node had announced dead, is back at zero without a roll
RollWitness ==
    \E p, q \in DOMAIN node_state[Me] :
        /\ node_state[Me][p].fail_count >= 3
        /\ node_state[Me][p].local_announcement_roll \in Rolls
        /\ CopiesIn(<<"back", q>>, sent[Me]) = 1
        /\ node_state[Me][q].fail_count = 0
        /\ node_state[Me][q].local_announcement_roll = None

\* C6: once announced is set for p, a step either keeps it and announces no
\* death of p, or clears it while applying a successful probe of p
AnnouncedSticky ==
    [][\A n \in Names : \A p \in DOMAIN node_state[n] :
          node_state[n][p].announced # NoOne =>
              \/ /\ node_state'[n][p].announced = node_state[n][p].announced
                 /\ Added(n, <<"dead", p>>) <= 0
              \/ /\ node_state'[n][p].announced = NoOne
                 /\ AppliesSuccess(n, p)]_vars

\* C6 witness: after the tracker step of a later cycle two entries are still
\* announced, one whose probe failed again and one that was not probed
StickyWitness ==
    /\ pc[Me] = "obituary"
    /\ \E p, q \in DOMAIN node_state[Me] :
          /\ Status(node_state[Me][p]) = "Dead"
          /\ Status(node_state[Me][q]) = "Dead"
          /\ Silenced(silenced_nodes_clone[Me], p)
          /\ ~Silenced(silenced_nodes_clone[Me], q)

\* C7: the election step of a Dying entry with T <= F leaves announced none
\* and announces nothing
StrictMajority ==
    [][\A n \in Names : \A p \in DOMAIN node_state[n] :
          (pc[n] = "elect" /\ Status(node_state[n][p]) = "Dying") =>
              LET c == node_state'[n][p].confirmations IN
              VotesFor(c) <= VotesAgainst(c) =>
                  /\ node_state'[n][p].announced = NoOne
                  /\ Added(n, <<"dead", p>>) = 0]_vars

\* C7 witness: the cycle is over and an entry is still Dying on a tie, one
\* vote for and one against
QuorumDenied ==
    /\ pc[Me] = "idle"
    /\ \E p \in DOMAIN node_state[Me] :
          /\ Status(node_state[Me][p]) = "Dying"
          /\ VotesFor(node_state[Me][p].confirmations) = 1
          /\ VotesAgainst(node_state[Me][p].confirmations) = 1

\* C8: an election with quorum sets announced to the holder of the greatest
\* roll among this node and the confirming peers, the greatest name among
\* equal rolls, and announces the death exactly if that is this node
WinnerIsMaximum ==
    [][\A n \in Names : \A p \in DOMAIN node_state[n] :
          (pc[n] = "elect" /\ pc'[n] = "idle"
              /\ Status(node_state[n][p]) = "Dying") =>
              LET c == node_state'[n][p].confirmations
                  w == node_state'[n][p].announced
                  mine == node_state'[n][p].local_announcement_roll
                  cands == {<<n, mine>>}
                           \cup {<<f, c[f]>> : f \in {g \in DOMAIN c : c[g] # None}}
              IN  IF VotesFor(c) > VotesAgainst(c)
                  THEN /\ \E x \in cands :
                            /\ x[1] = w
                            /\ \A y \in cands :
                                  \/ y[2] < x[2]
                                  \/ y[2] = x[2] /\ NameRank(y[1]) <= NameRank(w)
                       /\ Added(n, <<"dead", p>>) = (IF w = n THEN 1 ELSE 0)
                  ELSE w = NoOne]_vars

\* C8 witness: a peer confirmed with the roll this node drew and, having the
\* greater name, is the announcer
TieGoesToGreaterName ==
    \E p \in DOMAIN node_state[Me] :
        LET fs == node_state[Me][p] IN
        /\ fs.announced \in DOMAIN fs.confirmations
        /\ fs.confirmations[fs.announced] = fs.local_announcement_roll
        /\ NameRank(fs.announced) > NameRank(Me)

\* C9: all nodes that set announced for a peer set it to the same name (as
\* stated; in the code a late observer can elect another announcer)
SameAnnouncer ==
    \A p \in Names : \A n, m \in Names \ {p} :
        (node_state[n][p].announced # NoOne /\ node_state[m][p].announced # NoOne)
        => node_state[n][p].announced = node_state[m][p].announced

\* C10: applying a successful probe of p gives the announcer one recovery
\* message if the entry was dead and announced by this node, and none
\* otherwise
RecoveryAnnouncement ==
    [][\A n \in Names : \A p \in DOMAIN node_state[n] :
          AppliesSuccess(n, p) =>
              Added(n, <<"back", p>>) =
                  (IF node_state[n][p].fail_count >= 3
                      /\ node_state[n][p].announced = n
                   THEN 1 ELSE 0)]_vars

\* C10 witness: this node has just told the announcer that a peer it had
\* announced dead is back
RecoveryAnnounced ==
    \E p \in DOMAIN node_state[Me] :
        /\ CopiesIn(<<"back", p>>, sent[Me]) = 1
        /\ Me \notin heralds[p]
        /\ node_state[Me][p].fail_count = 0

\* a record of the sequence names the node
NamedIn(seq, p) == \E i \in 1..Len(seq) : seq[i].node_name = p

\* C11: the snapshot of a cycle is the store after the reap; a peer named in
\* it is not probed in that cycle, and the tracker step of that cycle leaves
\* its last_poll, last_fail and fail_count as they were
SilenceSuppressesProbing ==
    [][\A n \in Names :
          /\ (pc[n] = "idle" /\ pc'[n] = "gossip")
                => silenced_nodes_clone'[n] = silences'[n]
          /\ \A p \in DOMAIN node_state[n] :
                NamedIn(silenced_nodes_clone[n], p) =>
                    /\ (pc[n] = "probe" /\ pc'[n] = "track")
                          => p \notin DOMAIN poll_res'[n]
                    /\ (pc[n] = "track" /\ pc'[n] = "obituary") =>
                          /\ node_state'[n][p].last_poll = node_state[n][p].last_poll
                          /\ node_state'[n][p].last_fail = node_state[n][p].last_fail
                          /\ node_state'[n][p].fail_count = node_state[n][p].fail_count]_vars

\* C11 witness: after a tracker step one peer, silenced, has never been
\* probed while the other one has been probed up to the death threshold
SilencedNeverProbed ==
    /\ pc[Me] = "obituary"
    /\ \E p, q \in DOMAIN node_state[Me] :
          /\ NamedIn(silenced_nodes_clone[Me], p)
          /\ node_state[Me][p].last_poll = None
          /\ node_state[Me][p].fail_count = 0
          /\ node_state[Me][q].fail_count = 3

\* C15: no poller ever stops with the state lock poisoned (as stated; the
\* merge of the code panics on an obituary naming a node not held as dead)
PollerNeverStops ==
    \A n \in Names : pc[n] # "panicked" /\ lock[n] # "poisoned"

\* C16: a failed internet gate leaves the poller at the top of the loop and
\* changes no NodeState, no silence store, no poller local and no message;
\* no other step of the cycle is taken before a gate passes
GateSkipsCycle ==
    [][\A n \in Names :
          /\ (has_net[n] /\ ~has_net'[n]) =>
                /\ pc[n] = "idle" /\ pc'[n] = "idle"
                /\ UNCHANGED <<node_state, silences, silenced_nodes_clone,
                               poll_res, dead_copies, obi_response, sent>>
          /\ ~has_net'[n] => pc'[n] = "idle"
          /\ (~has_net[n] /\ pc'[n] # pc[n]) => has_net'[n]]_vars

\* C16 witness: the last gate failed while an entry is Dying and a silence
\* is in the store
GateFailed ==
    /\ ~has_net[Me]
    /\ silences[Me] # << >>
    /\ \E p \in DOMAIN node_state[Me] : Status(node_state[Me][p]) = "Dying"

\* C19: the obituary of a node lists exactly its entries with fail_count >= 3,
\* each with the roll drawn for it, and never the node itself
ObituaryContent ==
    \A n \in Names :
        LET o == ObituaryOf(node_state[n]) IN
        /\ DOMAIN o = {p \in DOMAIN node_state[n] :
                          node_state[n][p].fail_count >= 3}
        /\ \A p \in DOMAIN o :
              /\ o[p] = node_state[n][p].local_announcement_roll
              /\ Status(node_state[n][p]) \in {"Dying", "Dead"}
        /\ n \notin DOMAIN o

\* C19 witness: a Dying peer under an active silence is listed and an Alive
\* peer with failed probes is not
SilencedButListed ==
    \E p, q \in DOMAIN node_state[Me] :
        /\ NamedIn(silences[Me], p) /\ NamedIn(silenced_nodes_clone[Me], p)
        /\ Status(node_state[Me][p]) = "Dying"
        /\ p \in DOMAIN ObituaryOf(node_state[Me])
        /\ node_state[Me][q].fail_count \in 1..2
        /\ q \notin DOMAIN ObituaryOf(node_state[Me])

\* C20: after the merge, for every dead entry and every peer whose obituary
\* was received, the vote of that peer is the reported roll if the obituary
\* lists the entry and none if it does not (as stated; the code keeps an
\* earlier roll)
MergeReflectsLatest ==
    [][\A n \in Names :
          (pc[n] = "elect" /\ pc'[n] = "idle") =>
              \A p \in DOMAIN node_state'[n] :
                  node_state'[n][p].fail_count >= 3 =>
                      \A from \in DOMAIN obi_response[n] :
                          LET c == node_state'[n][p].confirmations
                              orb == obi_response[n][from]
                          IN  /\ from \in DOMAIN c
                              /\ c[from] = (IF p \in DOMAIN orb THEN orb[p]
                                            ELSE None)]_vars

\* the store holds a record with the id
HasId(store, id) == \E i \in 1..Len(store) : store[i].id = id

\* the members whose store holds a record with the id
Holders(id) == {n \in grid : HasId(silences[n], id)}

\* the first peer of n in roster order
FirstPeer(n) == CHOOSE q \in Peers(n) : \A r \in Peers(n) : NameRank(q) <= NameRank(r)

\* the silence raised on the member that took the request
Raised == silences[request.node][1]

\* C12 as stated: a silence raised on a member of a grid of three whose
\* members all run eventually is in the store of every member
FanOutToAll ==
    (request.node # NoOne)
    ~> (request.node # NoOne /\ Holders(Raised.id) = grid)

\* C12: a silence raised on a member of a grid of three whose members all
\* run is eventually marked as broadcast there and held by the first peer of
\* that member in roster order, and at no time by more than these two
FanOutToOne ==
    /\ [](\A id \in Rolls : Cardinality(Holders(id)) <= 2)
    /\ (request.node # NoOne)
       ~> (/\ request.node # NoOne
           /\ Raised.broadcasted
           /\ Holders(Raised.id) = {request.node, FirstPeer(request.node)})

\* C12 witness: the silence is marked on the member that took the request
\* and held by one peer, while the third member, holding no silence, has
\* just probed the silenced node
FanOutStopped ==
    \E n, q, r \in grid :
        /\ request.node = n /\ q # n /\ r \notin {n, q}
        /\ silences[n] # << >> /\ silences[n][1].broadcasted
        /\ silences[q] # << >> /\ silences[r] = << >>
        /\ pc[r] = "track"
        /\ silences[n][1].node_name \in DOMAIN poll_res[r]

\* C13: an accepted silence broadcast (right key, decodable body) answers
\* 204; it leaves the store as it is if a record with the id is held, and
\* otherwise appends one record with the fields of the body and broadcasted
\* set
BroadcastIdempotent ==
    [][(requests' = requests + 1 /\ request'.endpoint = "silence-broadcast"
           /\ request'.key_ok /\ request'.decodes) =>
          LET n == request'.node
              body == request'.body
          IN  /\ response' = 204
              /\ IF \E i \in 1..Len(silences[n]) : silences[n][i].id = body.id
                 THEN silences'[n] = silences[n]
                 ELSE silences'[n] = silences[n] \o
                         << [id |-> body.id, node_name |-> body.node_name,
                             silent_until |-> body.silent_until,
                             broadcasted |-> TRUE] >>]_vars

\* C13 witness: a broadcast was accepted under the id of a record raised on
\* this node, which is still the only record, still not broadcast and still
\* on its own target
SameIdKept ==
    /\ request.node = Me /\ request.endpoint = "silence-broadcast"
    /\ response = 204
    /\ Len(silences[Me]) = 1
    /\ silences[Me][1].id = request.body.id
    /\ ~silences[Me][1].broadcasted
    /\ silences[Me][1].node_name # request.body.node_name

\* a record of the store of n at position i that is still there after the step
Stays(n, i) ==
    /\ i <= Len(silences'[n])
    /\ silences'[n][i].id = silences[n][i].id

\* the step is the gossip step of the poller of n
GossipStep(n) == pc[n] = "gossip" /\ pc'[n] = "probe"

\* the peers of n that answer a POST
Accepting(n) == {q \in Peers(n) : Answers(q)}

\* C14: the broadcasted flag of a record is set only by a gossip step of its
\* node in which a peer answers, the record is then held by the first
\* answering peer in roster order and the stores of the other peers are as
\* before; a gossip step in which no peer answers leaves the flag unset; a
\* set flag stays set
BroadcastFlag ==
    [][\A n \in Names : \A i \in 1..Len(silences[n]) :
          Stays(n, i) =>
              /\ (~silences[n][i].broadcasted /\ silences'[n][i].broadcasted) =>
                    /\ GossipStep(n)
                    /\ Accepting(n) # {}
                    /\ \E q \in Accepting(n) :
                          /\ \A r \in Accepting(n) : NameRank(q) <= NameRank(r)
                          /\ HasId(silences'[q], silences[n][i].id)
                          /\ \A r \in Peers(n) \ {q} : silences'[r] = silences[r]
              /\ (GossipStep(n) /\ Accepting(n) = {}) =>
                    /\ silences'[n][i].broadcasted = silences[n][i].broadcasted
                    /\ silences' = silences
              /\ silences[n][i].broadcasted => silences'[n][i].broadcasted]_vars

\* C14 witness: the first peer of the roster does not run, and the silence
\* raised on "b" is marked there and held by "c"
SecondPeerAccepted ==
    /\ ~up["a"] /\ request.node = "b"
    /\ silences["b"] # << >> /\ silences["b"][1].broadcasted
    /\ HasId(silences["c"], silences["b"][1].id)
    /\ silences["a"] = << >>

\* C18: a request with a wrong key answers 406, a silence request whose time
\* does not parse answers 400, a silence request for a name that is neither
\* this node nor a peer answers 404, and a request answered 406, 400 or 404
\* changes no silence store and no NodeState
RejectedChangeNothing ==
    [][requests' = requests + 1 =>
          LET r == request'
              n == request'.node
          IN  /\ ~r.key_ok => response' = 406
              /\ (r.endpoint = "silence" /\ r.key_ok) =>
                    /\ r.time.kind = "garbage" => response' = 400
                    /\ (r.time.kind # "garbage"
                          /\ r.target \notin {NoOne, n} \cup Peers(n))
                          => response' = 404
              /\ response' \in {406, 400, 404} =>
                    /\ silences' = silences
                    /\ node_state' = node_state]_vars

\* C18 witness: a silence is in the store and a later request, for a name
\* not on the roster, was answered 404
UnknownTargetRejected ==
    /\ request.node = Me /\ request.endpoint = "silence"
    /\ request.target = "d" /\ response = 404
    /\ silences[Me] # << >>

\* C17: the poller holds the lock only at the positions of its locked
\* blocks, never where it makes network calls, and a handler, which takes
\* the lock, sends nothing and writes to no other node
LockNotHeldAcrossCalls ==
    /\ [](\A n \in Names :
             /\ lock[n] = "poller" => pc[n] \in LockPoints
             /\ pc[n] \in CallPoints => lock[n] # "poller")
    /\ [][requests' = requests + 1 =>
             /\ lock[request'.node] = "free"
             /\ sent' = sent
             /\ \A q \in Names \ {request'.node} : silences'[q] = silences[q]]_vars

\* C17 witness: the poller holds the lock for the merge, the obituaries of
\* this cycle received
LockHeldForMerge ==
    /\ lock[Me] = "poller" /\ pc[Me] = "elect"
    /\ obi_response[Me] # EmptyMap

\* the step is the merge and election step of the poller of n, completed
ElectStep(n) == pc[n] = "elect" /\ pc'[n] = "idle"

\* the peers whose obituary call failed in the cycle n is in
FailedCalls(n) == Asked(n) \ DOMAIN obi_response[n]

\* C21: a peer whose obituary call failed in a cycle is, for every Dying
\* entry, in neither count of the election of that cycle (as stated; the
\* code counts the vote the peer left in an earlier cycle)
FailedCallDoesNotVote ==
    [][\A n \in Names :
          ElectStep(n) =>
              \A from \in FailedCalls(n) : \A p \in DOMAIN node_state[n] :
                  Status(node_state[n][p]) = "Dying" =>
                      from \notin DOMAIN node_state'[n][p].confirmations]_vars

\* the peers n holds below the death threshold
HeldAlive(n) == {q \in DOMAIN node_state[n] : node_state[n][q].fail_count < 3}

\* C22: after the tracker step the obituaries are fetched only if an entry
\* has fail_count >= 3 and announced none, and then from every peer whose
\* entry has fail_count < 3 and from no other; the obituaries received are
\* from these peers
ObituaryTargets ==
    \A n \in Names :
        LET dying == \E p \in DOMAIN node_state[n] :
                        /\ node_state[n][p].fail_count >= 3
                        /\ node_state[n][p].announced = NoOne
        IN  /\ pc[n] \in {"obituary", "elect"} =>
                  Asked(n) = (IF dying THEN HeldAlive(n) ELSE {})
            /\ pc[n] = "elect" =>
                  /\ DOMAIN obi_response[n] \subseteq HeldAlive(n)
                  /\ ~dying => obi_response[n] = EmptyMap

\* C22 witness: one peer is Dead, one is Dying, and the only obituary
\* received is from the third, held alive
AskedOnlyTheLiving ==
    /\ pc[Me] = "elect"
    /\ \E p, q, r \in DOMAIN node_state[Me] :
          /\ Status(node_state[Me][p]) = "Dead"
          /\ Status(node_state[Me][q]) = "Dying"
          /\ Status(node_state[Me][r]) = "Alive"
          /\ DOMAIN obi_response[Me] = {r}

\* C23: the election step of a Dying entry whose confirmations map is empty
\* after the merge sets announced to this node and gives the announcer one
\* death message for the peer
LoneVoterAnnounces ==
    [][\A n \in Names : \A p \in DOMAIN node_state[n] :
          (ElectStep(n) /\ Status(node_state[n][p]) = "Dying"
              /\ node_state'[n][p].confirmations = EmptyMap) =>
              /\ VotesFor(node_state'[n][p].confirmations) = 1
              /\ VotesAgainst(node_state'[n][p].confirmations) = 0
              /\ node_state'[n][p].announced = n
              /\ Added(n, <<"dead", p>>) = 1]_vars

\* C23 witness: this node holds every peer as dead, announced by itself
\* without a vote of a peer, the second one in the cycle just finished
AloneAnnouncedAll ==
    /\ pc[Me] = "idle"
    /\ \A p \in DOMAIN node_state[Me] :
          /\ node_state[Me][p].announced = Me
          /\ node_state[Me][p].confirmations = EmptyMap
    /\ \E p, q \in DOMAIN node_state[Me] :
          /\ CopiesIn(<<"dead", p>>, sent[Me]) = 1
          /\ CopiesIn(<<"dead", q>>, sent[Me]) = 0

\* the step is the probe step, the tracker step of the poller of n
ProbeStep(n) == pc[n] = "probe" /\ pc'[n] = "track"

TrackStep(n) == pc[n] = "track" /\ pc'[n] = "obituary"

\* what a probe can meet, by the answer: 2xx with a body that decodes, any
\* 2xx, no 2xx
Decoded == {"ok", "name_mismatch"}

Answered2xx == {"ok", "name_mismatch", "undecodable"}

NotAnswered2xx == {"status_error", "no_connection", "timeout"}

\* the fail_count after a failed probe is counted
Counted(fc) == IF fc < 3 THEN fc + 1 ELSE fc

\* C24 as stated: a probe is recorded as a success exactly if it met a 2xx
\* answer whose body decodes, whatever the name in it; every other probe is
\* recorded as a failure and counted
SuccessIffDecoded ==
    [][\A n \in Names :
          /\ ProbeStep(n) =>
                \A p \in DOMAIN poll_res'[n] :
                    ~poll_res'[n][p].failing <=> met'[n][p] \in Decoded
          /\ TrackStep(n) =>
                \A p \in DOMAIN met[n] :
                    met[n][p] \notin Decoded =>
                        node_state'[n][p].fail_count
                            = Counted(node_state[n][p].fail_count)]_vars

\* C24: a probe is recorded as a success exactly if it met a 2xx answer,
\* whether the body decodes or not and whatever the name in it; a probe that
\* met no answer or an answer that is not 2xx is recorded as a failure and
\* counted, and a success is never counted
SuccessIff2xx ==
    [][\A n \in Names :
          /\ ProbeStep(n) =>
                \A p \in DOMAIN poll_res'[n] :
                    /\ met'[n][p] \in Answered2xx \cup NotAnswered2xx
                    /\ ~poll_res'[n][p].failing <=> met'[n][p] \in Answered2xx
          /\ TrackStep(n) =>
                \A p \in DOMAIN met[n] :
                    /\ met[n][p] \in NotAnswered2xx =>
                          node_state'[n][p].fail_count
                              = Counted(node_state[n][p].fail_count)
                    /\ met[n][p] \in Answered2xx =>
                          node_state'[n][p].fail_count
                              <= node_state[n][p].fail_count]_vars

\* C24 witness: an entry with two failures was probed and met a 2xx answer
\* that does not decode, recorded as a success, while the probe of the other
\* peer ran into the timeout
UpButWeird ==
    /\ pc[Me] = "track"
    /\ \E p, q \in DOMAIN met[Me] :
          /\ node_state[Me][p].fail_count = 2
          /\ met[Me][p] = "undecodable" /\ ~poll_res[Me][p].failing
          /\ met[Me][q] = "timeout" /\ poll_res[Me][q].failing

\* C25: fail_count never exceeds 3; the roll of an entry is drawn in the
\* tracker step that takes fail_count to 3, is left as it is by every step
\* that leaves fail_count at 3, and goes only when a successful probe resets
\* the entry
RollDrawnOnce ==
    /\ [](\A n \in Names : \A p \in DOMAIN node_state[n] :
             node_state[n][p].fail_count \in 0..3)
    /\ [][\A n \in Names : \A p \in DOMAIN node_state[n] :
             LET old == node_state[n][p]
                 new == node_state'[n][p]
             IN  /\ (old.fail_count < 3 /\ new.fail_count = 3) =>
                       /\ TrackStep(n)
                       /\ p \in DOMAIN poll_res[n] /\ poll_res[n][p].failing
                       /\ old.fail_count = 2
                       /\ old.local_announcement_roll = None
                       /\ new.local_announcement_roll \in Rolls
                 /\ (old.fail_count = 3 /\ new.fail_count = 3) =>
                       new.local_announcement_roll = old.local_announcement_roll
                 /\ (old.fail_count = 3 /\ new.fail_count # 3) =>
                       /\ AppliesSuccess(n, p)
                       /\ new.fail_count = 0
                       /\ new.local_announcement_roll = None
                 /\ new.fail_count < 3 =>
                       new.local_announcement_roll = old.local_announcement_roll
                       \/ AppliesSuccess(n, p)]_vars

\* C25 witness: the tracker has just applied a failed probe to an entry that
\* was announced dead in an earlier cycle, and the roll is in place
FailedAgainSameRoll ==
    /\ pc[Me] = "obituary"
    /\ \E p \in DOMAIN node_state[Me] :
          /\ Status(node_state[Me][p]) = "Dead"
          /\ ~Silenced(silenced_nodes_clone[Me], p)
          /\ node_state[Me][p].fail_count = 3
          /\ node_state[Me][p].local_announcement_roll \in Rolls

\* C26: an entry whose announced is this node belongs to a peer whose death
\* this node announced, in the step that set it; an entry whose announced is
\* another node holds a roll as the confirmation of that node; announced is
\* set only by an election step, on an entry at the death threshold, and a
\* tracker step at most clears it
AnnouncedProvenance ==
    /\ [](\A n \in Names : \A p \in DOMAIN node_state[n] :
             LET fs == node_state[n][p] IN
             /\ fs.announced = n => n \in heralds[p]
             /\ fs.announced \notin {NoOne, n} =>
                   /\ fs.announced \in DOMAIN fs.confirmations
                   /\ fs.confirmations[fs.announced] # None)
    /\ [][\A n \in Names : \A p \in DOMAIN node_state[n] :
             LET old == node_state[n][p]
                 new == node_state'[n][p]
             IN  /\ (new.announced # NoOne /\ new.announced # old.announced) =>
                       /\ ElectStep(n)
                       /\ old.announced = NoOne
                       /\ old.fail_count >= 3
                       /\ Added(n, <<"dead", p>>)
                             = (IF new.announced = n THEN 1 ELSE 0)
                 /\ TrackStep(n) => new.announced \in {old.announced, NoOne}]_vars

\* C26 witness: after the failed probes of a later cycle one entry is still
\* announced by this node and another one by a peer that confirmed with a
\* roll
AnnouncedByBoth ==
    /\ pc[Me] = "obituary"
    /\ \E p, q \in DOMAIN node_state[Me] :
          /\ node_state[Me][p].announced = Me /\ Me \in heralds[p]
          /\ node_state[Me][q].announced \notin {NoOne, Me}
          /\ ~Silenced(silenced_nodes_clone[Me], p)
          /\ ~Silenced(silenced_nodes_clone[Me], q)

\* C27: the confirmations map of the entry of p at n has keys only among
\* the peers of n other than p
ConfirmationKeys ==
    \A n \in Names : \A p \in DOMAIN node_state[n] :
        /\ DOMAIN node_state[n][p].confirmations \subseteq Peers(n) \ {p}
        /\ n \notin DOMAIN node_state[n][p].confirmations
        /\ p \notin DOMAIN node_state[n][p].confirmations

\* C27 witness: the entry of one dead peer holds the votes of the two other
\* peers, one of them dead by now with the vote of the third in its entry
VotesOfAllOthers ==
    \E p, q, r \in DOMAIN node_state[Me] :
        /\ DOMAIN node_state[Me][p].confirmations = {q, r}
        /\ DOMAIN node_state[Me][q].confirmations = {r}
        /\ is_dead(node_state[Me][p]) /\ is_dead(node_state[Me][q])

\* C28: no handler changes a NodeState; from the end of the tracker block to
\* the merge the clones the obituary targets are picked from are the entries
\* with fail_count >= 3, unchanged, and the merge and the election of the
\* cycle change and announce only these entries, with a vote of every peer
\* whose obituary was received
ConsistentView ==
    /\ [](\A n \in Names :
             pc[n] \in {"announce_up", "obituary", "elect"} =>
                 /\ DOMAIN dead_copies[n] =
                       {p \in DOMAIN node_state[n] :
                           node_state[n][p].fail_count >= 3}
                 /\ \A p \in DOMAIN dead_copies[n] :
                       dead_copies[n][p] = node_state[n][p])
    /\ [][/\ requests' = requests + 1 =>
                /\ node_state' = node_state
                /\ dead_copies' = dead_copies
          /\ \A n \in Names :
                (pc[n] = "elect" /\ pc'[n] = "announce") =>
                    /\ DOMAIN obi_response[n] \cap DOMAIN dead_copies[n] = {}
                    /\ announcements'[n] \subseteq DOMAIN dead_copies[n]
                    /\ \A p \in DOMAIN node_state[n] :
                          IF p \in DOMAIN dead_copies[n]
                          THEN DOMAIN obi_response[n]
                                  \subseteq DOMAIN node_state'[n][p].confirmations
                          ELSE node_state'[n][p] = node_state[n][p]]_vars

\* C28 witness: the poller holds the lock for the merge with an obituary
\* received, and a silence on the dead peer, raised after the snapshot of the
\* cycle, is in the store
HandlerInsideCycle ==
    /\ pc[Me] = "elect" /\ lock[Me] = "poller"
    /\ obi_response[Me] # EmptyMap
    /\ request.node = Me /\ request.endpoint = "silence" /\ response = 200
    /\ \E p \in DOMAIN dead_copies[Me] :
          /\ NamedIn(silences[Me], p)
          /\ ~NamedIn(silenced_nodes_clone[Me], p)

\* the step is the top of the loop of n with the gate passing: the reap
ReapStep(n) == pc[n] = "idle" /\ pc'[n] = "gossip"

\* the positions of the records of the store that have not expired at t
Live(store, t) == {i \in 1..Len(store) : store[i].silent_until > t}

\* C29: the reap of a cycle at time now leaves no silence with silent_until
\* <= now in the store and keeps every silence with silent_until > now that
\* was there, in its order and as it was; the snapshot is the store so left
ReapRemovesExpired ==
    [][\A n \in Names :
          ReapStep(n) =>
              /\ \A i \in 1..Len(silences'[n]) :
                    silences'[n][i].silent_until > now
              /\ Len(silences'[n]) = Cardinality(Live(silences[n], now))
              /\ \A i \in Live(silences[n], now) :
                    silences'[n][Cardinality({j \in Live(silences[n], now) : j <= i})]
                        = silences[n][i]
              /\ silenced_nodes_clone'[n] = silences'[n]]_vars

\* C29 witness: the silence of the last request, accepted with the present
\* second as its end, is gone after the reap, and a silence with a later end
\* is still in the store
ExpiredAtNowRemoved ==
    /\ pc[Me] = "gossip"
    /\ request.node = Me /\ request.endpoint = "silence" /\ response = 200
    /\ request.time = [kind |-> "unix", val |-> now]
    /\ Len(silences[Me]) = 1
    /\ silences[Me][1].silent_until > now

\* the steps of the loop of n, lock by lock: snapshot, POSTs, mark
SnapshotStep(n) == pc[n] = "reap" /\ pc'[n] = "post"

PostStep(n) == pc[n] = "post" /\ pc'[n] = "mark"

MarkStep(n) == pc[n] = "mark" /\ pc'[n] = "probe"

\* the positions of the records pushed on the store of n after the snapshot
\* the poller of n holds
Late(n) == (Len(silenced_nodes_clone[n]) + 1)..Len(silences[n])

\* the ids of the silences a peer accepted in the cycle n is in
BroadcastIds(n) == {broadcast_silences[n][i].id : i \in 1..Len(broadcast_silences[n])}

\* what the steps of a cycle other than the mark step do with a silence of n:
\* the probe step skips a peer only for a silence of the snapshot, the next
\* snapshot holds every silence of the store not yet broadcast that has not
\* expired, and the POSTs take every pending silence of the snapshot to the
\* first peer that accepts
LateSilenceStepped(n) ==
    /\ ProbeStep(n) =>
          \A p \in Peers(n) :
              p \in DOMAIN poll_res'[n] <=> ~NamedIn(silenced_nodes_clone[n], p)
    /\ SnapshotStep(n) =>
          \A i \in 1..Len(silences[n]) :
              (~silences[n][i].broadcasted /\ silences[n][i].silent_until > now) =>
                  \E j \in 1..Len(silenced_nodes_clone'[n]) :
                      /\ silenced_nodes_clone'[n][j] = silences[n][i]
                      /\ silences'[n][j] = silences[n][i]
    /\ PostStep(n) =>
          /\ broadcast_silences'[n] \in {<< >>, Pending(silenced_nodes_clone[n])}
          /\ broadcast_silences'[n] # << >> =>
                \E q \in Peers(n) :
                    \A i \in 1..Len(broadcast_silences'[n]) :
                        HasId(silences'[q], broadcast_silences'[n][i].id)

\* C30: a silence pushed on the store after the snapshot of a cycle is left
\* as it is, not broadcast, by the mark step of that cycle; it does not
\* suppress a probe of that cycle; the next snapshot holds it if it has not
\* expired and it is then posted (as stated; the mark step of the code marks
\* it if a silence of the snapshot that a peer accepted has the same id)
LateSilenceKept ==
    [][\A n \in Names :
          /\ MarkStep(n) =>
                \A i \in Late(n) :
                    /\ i <= Len(silences'[n])
                    /\ silences'[n][i] = silences[n][i]
                    /\ ~silences'[n][i].broadcasted
          /\ LateSilenceStepped(n)]_vars

\* the same for the late silences whose id is not the id of a silence that
\* a peer accepted in the cycle
LateSilenceKeptUnlessSameId ==
    [][\A n \in Names :
          /\ MarkStep(n) =>
                \A i \in Late(n) :
                    silences[n][i].id \notin BroadcastIds(n) =>
                        /\ i <= Len(silences'[n])
                        /\ silences'[n][i] = silences[n][i]
                        /\ ~silences'[n][i].broadcasted
          /\ LateSilenceStepped(n)]_vars

\* a silence raised on a peer after the snapshot is still pending after the
\* mark step, the probe of the peer is under way, and a silence of the
\* snapshot is marked
LateSilencePending ==
    /\ pc[Me] = "track"
    /\ Len(silences[Me]) = 2 /\ Len(silenced_nodes_clone[Me]) = 1
    /\ silences[Me][1].broadcasted /\ ~silences[Me][2].broadcasted
    /\ silences[Me][2].node_name \in DOMAIN poll_res[Me]

\* C31: a death message for p is given to the announcer only in a step in
\* which the entry of p has fail_count >= 3 and a roll; an entry with
\* announced set has both; the merge and election step, whatever the
\* obituaries received, leaves an entry with fail_count < 3 as it is and
\* announces nothing for it, also when it ends in a panic
AnnouncesOwnObservations ==
    /\ [](\A n \in Names : \A p \in DOMAIN node_state[n] :
             node_state[n][p].announced # NoOne =>
                 /\ node_state[n][p].fail_count >= 3
                 /\ node_state[n][p].local_announcement_roll # None)
    /\ [][\A n \in Names : \A p \in DOMAIN node_state[n] :
             /\ Added(n, <<"dead", p>>) > 0 =>
                   /\ node_state[n][p].fail_count >= 3
                   /\ node_state[n][p].local_announcement_roll \in Rolls
                   /\ node_state'[n][p].fail_count >= 3
                   /\ node_state'[n][p].local_announcement_roll \in Rolls
             /\ (pc[n] = "elect" /\ node_state[n][p].fail_count < 3) =>
                   /\ node_state'[n][p] = node_state[n][p]
                   /\ Added(n, <<"dead", p>>) = 0]_vars

\* C31 witness: this node has just announced the death of a peer at the
\* threshold, confirmed by the other peer, which it holds alive with failed
\* probes of its own and has not announced
SelfObservedDeath ==
    /\ pc[Me] = "idle"
    /\ \E p, q \in DOMAIN node_state[Me] :
          /\ CopiesIn(<<"dead", p>>, sent[Me]) = 1
          /\ node_state[Me][p].fail_count = 3
          /\ node_state[Me][p].local_announcement_roll \in Rolls
          /\ q \in DOMAIN node_state[Me][p].confirmations
          /\ node_state[Me][p].confirmations[q] # None
          /\ node_state[Me][q].fail_count \in 1..2
          /\ node_state[Me][q].announced = NoOne

====
